---- MODULE Spec2Model ----
(***************************************************************************)
(* ScriptsizeFSM: the header-only finite state machine engine              *)
(* (scriptsizefsm.hpp) together with the two FSM types its tests define:   *)
(* the simple switch (tests/simple_switch.cpp, also used with two          *)
(* instances in tests/multiple_instances.cpp) and the extended switch with *)
(* a current (tests/extended_switch.cpp).                                  *)
(*                                                                         *)
(* The engine is modelled statement by statement with an explicit call     *)
(* stack: FSM::react, FSM::reset and FSM::transit call into the state's    *)
(* react/exit/entry routines, which in turn may call State::transit.  The  *)
(* bodies of the routines are sequences of instructions; one action        *)
(* executes one kind of instruction of the frame on top of the stack.      *)
(* While the stack is not empty no new top-level call can start, so every  *)
(* call runs to its return before the caller's next call.                  *)
(*                                                                         *)
(* Spec drives the two switches of the tests.  SpecAll adds four client    *)
(* FSM types that use the engine in the ways it does not guard against,    *)
(* SpecCopy lets an instance be a copy of another, and SpecFair states     *)
(* that a call which was made goes on executing.                           *)
(***************************************************************************)
EXTENDS Integers, Sequences, FiniteSets, TLC

VARIABLES
    machine,          \* which FSM type the two instances are of
    this_,            \* FSM::this_          per instance
    init_state_,      \* FSM::init_state_    per instance
    current_state_,   \* FSM::current_state_ per instance
    initial_current_, \* extended switch FSM::initial_current_ per instance
    current_,         \* extended switch FSM::current_ per instance
    stack,            \* call stack, top frame first
    log,              \* calls made by the engine during the last top-level call
    op,               \* the last top-level call and its arguments
    pre,              \* the instances' fields when the last top-level call began
    args,             \* the arguments each instance was started with
    hist              \* per instance: its last exit/entry call, and the state
                      \* its last entry call was made on

vars == << machine, this_, init_state_, current_state_, initial_current_,
           current_, stack, log, op, pre, args, hist >>

(***************************************************************************)
(* Bounds                                                                  *)
(***************************************************************************)
\* the currents passed to the extended switch are 0..MaxCurrent
MaxCurrent == 2

\* no call is made when the call stack holds MaxDepth frames: an unbounded
\* recursion of the program ends there in the model
MaxDepth == 8

(***************************************************************************)
(* The FSM types, their states and events                                  *)
(***************************************************************************)
Machines == {"simple_switch", "extended_switch"}

\* the two instances of tests/multiple_instances.cpp
Instances == {"fsm1", "fsm2"}

\* the address of _state_instance<T>::value, one per concrete state type
_state_instance(T_State) == T_State

\* the concrete state types both switches declare
StateTypes == {"OnState", "OffState"}

\* FSM types a client can write that use the engine in the ways the engine
\* does not guard against: a reaction that transits into its own state, a
\* reaction that transits twice, an entry routine and an exit routine that
\* transit
UserMachines == {"self_transit", "double_transit", "entry_transit", "exit_transit"}

AllMachines == Machines \cup UserMachines

\* the concrete state types of the client FSM types
UserStateTypes == {"StateA", "StateB", "StateC"}

StateTypesOf(m) == IF m \in Machines THEN StateTypes ELSE UserStateTypes

States == {_state_instance(T) : T \in StateTypes \cup UserStateTypes}

\* an object that is not constructed yet
Null == "null"

Currents(m) == IF m = "extended_switch" THEN 0..MaxCurrent ELSE {0}

\* OnEvent carries a current in the extended switch only; OffEvent carries none
OnEvent(c) == [type |-> "OnEvent", current |-> c]
OffEvent == [type |-> "OffEvent", current |-> 0]
NoEvent == [type |-> "-", current |-> 0]

Events(m) == {OnEvent(c) : c \in Currents(m)} \cup {OffEvent}

(***************************************************************************)
(* Instructions and the bodies of the routines                             *)
(***************************************************************************)
Instr(o, t, s) == [op |-> o, target |-> t, src |-> s]

\* FSM::transit<T_State>
TransitNoExit(T_State) ==
    << Instr("assign", _state_instance(T_State), "-"),
       Instr("entry", "-", "-") >>

\* a transit that does nothing when the target is the current state
TransitSkipSelf(T_State) ==
    IF current_state_[Head(stack).self] = _state_instance(T_State)
    THEN << >>
    ELSE << Instr("exit", "-", "-"),
            Instr("assign", _state_instance(T_State), "-"),
            Instr("entry", "-", "-") >>

TransitExitAfterAssign(T_State) ==
    << Instr("assign", _state_instance(T_State), "-"),
       Instr("exit", "-", "-"),
       Instr("entry", "-", "-") >>

TransitEntryBeforeAssign(T_State) ==
    << Instr("exit", "-", "-"),
       Instr("entry", "-", "-"),
       Instr("assign", _state_instance(T_State), "-") >>

transit(T_State) ==
    << Instr("exit", "-", "-"),
       Instr("assign", _state_instance(T_State), "-"),
       Instr("entry", "-", "-") >>

\* FSM::reset
ResetNoAssign ==
    << Instr("exit", "-", "-"),
       Instr("resetter", "-", "-"),
       Instr("entry", "-", "-") >>

ResetResetterFirst ==
    << Instr("exit", "-", "-"),
       Instr("resetter", "-", "-"),
       Instr("assign", "init_state_", "-"),
       Instr("entry", "-", "-") >>

reset ==
    << Instr("exit", "-", "-"),
       Instr("assign", "init_state_", "-"),
       Instr("resetter", "-", "-"),
       Instr("entry", "-", "-") >>

\* which react overloads a concrete state overrides
HasOverride(m, s, e) ==
    IF m = "simple_switch"
    THEN \/ s = "OnState" /\ e = "OffEvent"
         \/ s = "OffState" /\ e = "OnEvent"
    ELSE IF m = "extended_switch"
    THEN \/ s = "OnState"
         \/ s = "OffState" /\ e = "OnEvent"
    ELSE IF m = "double_transit"
    THEN s = "StateC" /\ e = "OnEvent"
    ELSE e = "OnEvent"

\* GenericState::react, the default of every event type
GenericReact == << >>

\* the overriding react routines of the concrete states
OverrideReactSwapped(m, s, e) ==
    IF m = "simple_switch"
    THEN IF s = "OnState"
         THEN << Instr("transit", "OnState", "-") >>
         ELSE << Instr("transit", "OffState", "-") >>
    ELSE IF s = "OnState"
         THEN IF e = "OnEvent"
              THEN << Instr("setCurrent", "-", "event") >>
              ELSE << Instr("transit", "OffState", "-") >>
         ELSE << Instr("setCurrent", "-", "event"),
                 Instr("transit", "OnState", "-") >>

OverrideReact(m, s, e) ==
    IF m = "simple_switch"
    THEN IF s = "OnState"
         THEN << Instr("transit", "OffState", "-") >>
         ELSE << Instr("transit", "OnState", "-") >>
    ELSE IF s = "OnState"
         THEN IF e = "OnEvent"
              THEN << Instr("setCurrent", "-", "event") >>
              ELSE << Instr("transit", "OffState", "-") >>
         ELSE << Instr("setCurrent", "-", "event"),
                 Instr("transit", "OnState", "-") >>

\* the overriding react(fsm, OnEvent) routines of the client FSM types:
\* StateC of double_transit calls transit<StateA> and then transit<StateB>;
\* every state of the other three calls transit<StateA>
UserReact(m, s, e) ==
    IF m = "double_transit"
    THEN << Instr("transit", "StateA", "-"), Instr("transit", "StateB", "-") >>
    ELSE << Instr("transit", "StateA", "-") >>

\* virtual dispatch of react(fsm, event) on state s
ReactCode(m, s, e) ==
    IF ~HasOverride(m, s, e) THEN GenericReact
    ELSE IF m \in Machines THEN OverrideReact(m, s, e)
    ELSE UserReact(m, s, e)

\* virtual dispatch of entry(fsm) on state s; StateA of entry_transit calls
\* transit<StateB> in its entry routine
EntryCode(m, s) ==
    IF m = "extended_switch" /\ s = "OffState"
    THEN << Instr("setCurrent", "-", "zero") >>
    ELSE IF m = "entry_transit" /\ s = "StateA"
    THEN << Instr("transit", "StateB", "-") >>
    ELSE << >>

\* virtual dispatch of exit(fsm) on state s: no state of the switches
\* overrides State::exit; StateA of exit_transit calls transit<StateB> in it
ExitCode(m, s) ==
    IF m = "exit_transit" /\ s = "StateA"
    THEN << Instr("transit", "StateB", "-") >>
    ELSE << >>

\* virtual dispatch of resetter()
ResetterCode(m) ==
    IF m = "extended_switch"
    THEN << Instr("setCurrent", "-", "initial") >>
    ELSE << >>

(***************************************************************************)
(* Queries                                                                 *)
(***************************************************************************)
\* comparing the state objects by value: they have no fields, so all are equal
is_in_state_by_value(i, T_State) ==
    current_state_[i] \in States /\ _state_instance(T_State) \in States

is_in_state(i, T_State) == current_state_[i] = _state_instance(T_State)

getCurrent(i) == current_[i]

constructed(i) == this_[i] # Null

(***************************************************************************)
(* Call stack and call log                                                 *)
(***************************************************************************)
Frame(fsm, ev, code) == [self |-> fsm, event |-> ev, code |-> code, pc |-> 1]

Call(name, s, fsm) ==
    [call |-> name, state |-> s, fsm |-> fsm, cur |-> current_state_[fsm]]

Idle == stack = << >>

Top == Head(stack)

\* the instruction the top frame is at, or a return when its body is over
AtInstr(o) ==
    /\ stack # << >>
    /\ Top.pc <= Len(Top.code)
    /\ Top.code[Top.pc].op = o

\* the top frame moved past its instruction
Advanced == [Top EXCEPT !.pc = @ + 1]

Snapshot ==
    [this_ |-> this_, init_state_ |-> init_state_,
     current_state_ |-> current_state_,
     initial_current_ |-> initial_current_, current_ |-> current_]

(***************************************************************************)
(* Init: no instance is constructed                                        *)
(***************************************************************************)
NoInstance ==
    /\ this_ = [i \in Instances |-> Null]
    /\ init_state_ = [i \in Instances |-> Null]
    /\ current_state_ = [i \in Instances |-> Null]
    /\ initial_current_ = [i \in Instances |-> 0]
    /\ current_ = [i \in Instances |-> 0]
    /\ stack = << >>
    /\ log = << >>
    /\ op = [kind |-> "-", inst |-> "-", event |-> NoEvent, state |-> "-",
             result |-> FALSE]
    /\ pre = Snapshot
    /\ args = [i \in Instances |-> [state |-> Null, current |-> 0]]
    /\ hist = [i \in Instances |-> [call |-> "-", entered |-> Null]]

\* the two switches of the tests
Init == machine \in Machines /\ NoInstance

\* the switches and the client FSM types
InitAll == machine \in AllMachines /\ NoInstance

(***************************************************************************)
(* start<FSM, T_State_Init>(args...) and the constructors                  *)
(***************************************************************************)
\* FSM::FSM initialises current_state_ from its init_state parameter
CtorCurrentStateOff(init_state) == _state_instance("OffState")

CtorCurrentState(init_state) == init_state

\* FSM::FSM initialises this_ to the object under construction
CtorThisShared(i) == "fsm1"

CtorThis(i) == i

start(i, T_State_Init, c) ==
    /\ Idle
    /\ ~constructed(i)
    /\ this_' = [this_ EXCEPT ![i] = CtorThis(i)]
    /\ init_state_' = [init_state_ EXCEPT ![i] = _state_instance(T_State_Init)]
    /\ current_state_' =
           [current_state_ EXCEPT
               ![i] = CtorCurrentState(_state_instance(T_State_Init))]
    /\ initial_current_' = [initial_current_ EXCEPT ![i] = c]
    /\ current_' = [current_ EXCEPT ![i] = c]
    /\ log' = << >>
    /\ op' = [kind |-> "start", inst |-> i, event |-> NoEvent, state |-> "-",
              result |-> FALSE]
    /\ pre' = Snapshot
    /\ args' = [args EXCEPT ![i] = [state |-> T_State_Init, current |-> c]]
    /\ UNCHANGED << machine, stack, hist >>

(***************************************************************************)
(* T_FSM_Child j = i: the copy constructor the compiler generates, FSM      *)
(* declares none.  Every member is copied, the pointer this_ included.      *)
(***************************************************************************)
copy(j, i) ==
    /\ Idle
    /\ constructed(i)
    /\ ~constructed(j)
    /\ this_' = [this_ EXCEPT ![j] = this_[i]]
    /\ init_state_' = [init_state_ EXCEPT ![j] = init_state_[i]]
    /\ current_state_' = [current_state_ EXCEPT ![j] = current_state_[i]]
    /\ initial_current_' = [initial_current_ EXCEPT ![j] = initial_current_[i]]
    /\ current_' = [current_ EXCEPT ![j] = current_[i]]
    /\ log' = << >>
    /\ op' = [kind |-> "copy", inst |-> j, event |-> NoEvent, state |-> "-",
              result |-> FALSE]
    /\ pre' = Snapshot
    /\ args' = [args EXCEPT ![j] = args[i]]
    /\ UNCHANGED << machine, stack, hist >>

(***************************************************************************)
(* FSM::react(event): current_state_->react(this_, event)                  *)
(***************************************************************************)
\* the state whose react routine FSM::react calls
ReactReceiverInit(i) == init_state_[i]

ReactReceiver(i) == current_state_[i]

FSM_react(i, e) ==
    /\ Idle
    /\ constructed(i)
    /\ stack' = << Frame(this_[i], e, ReactCode(machine, ReactReceiver(i), e.type)) >>
    /\ log' = << Call("react", ReactReceiver(i), this_[i]) >>
    /\ op' = [kind |-> "react", inst |-> i, event |-> e, state |-> "-",
              result |-> FALSE]
    /\ pre' = Snapshot
    /\ UNCHANGED << machine, this_, init_state_, current_state_,
                    initial_current_, current_, args, hist >>

(***************************************************************************)
(* FSM::reset()                                                            *)
(***************************************************************************)
FSM_reset(i) ==
    /\ Idle
    /\ constructed(i)
    /\ stack' = << Frame(i, NoEvent, reset) >>
    /\ log' = << >>
    /\ op' = [kind |-> "reset", inst |-> i, event |-> NoEvent, state |-> "-",
              result |-> FALSE]
    /\ pre' = Snapshot
    /\ UNCHANGED << machine, this_, init_state_, current_state_,
                    initial_current_, current_, args, hist >>

(***************************************************************************)
(* FSM::is_in_state<T_State>(): the caller asks and gets the answer         *)
(***************************************************************************)
\* an is_in_state that assigns where it should compare
FSM_is_in_state_assigning(i, T_State) ==
    /\ Idle
    /\ constructed(i)
    /\ current_state_' = [current_state_ EXCEPT ![i] = _state_instance(T_State)]
    /\ log' = << >>
    /\ op' = [kind |-> "is_in_state", inst |-> i, event |-> NoEvent,
              state |-> T_State, result |-> TRUE]
    /\ pre' = Snapshot
    /\ UNCHANGED << machine, this_, init_state_, initial_current_, current_,
                    stack, args, hist >>

FSM_is_in_state(i, T_State) ==
    /\ Idle
    /\ constructed(i)
    /\ log' = << >>
    /\ op' = [kind |-> "is_in_state", inst |-> i, event |-> NoEvent,
              state |-> T_State, result |-> is_in_state(i, T_State)]
    /\ pre' = Snapshot
    /\ UNCHANGED << machine, this_, init_state_, current_state_,
                    initial_current_, current_, stack, args, hist >>

(***************************************************************************)
(* The statements of FSM::transit and FSM::reset                           *)
(***************************************************************************)
\* current_state_->exit(this_)
call_exit ==
    /\ AtInstr("exit")
    /\ Len(stack) < MaxDepth
    /\ LET self == Top.self
           s == current_state_[self]
       IN /\ log' = Append(log, Call("exit", s, this_[self]))
          /\ hist' = [hist EXCEPT ![self].call = "exit"]
          /\ stack' = << Frame(this_[self], NoEvent, ExitCode(machine, s)),
                         Advanced >> \o Tail(stack)
    /\ UNCHANGED << machine, this_, init_state_, current_state_,
                    initial_current_, current_, op, pre, args >>

\* current_state_ = &_state_instance<T_State>::value, or = init_state_
assign ==
    /\ AtInstr("assign")
    /\ LET self == Top.self
           t == Top.code[Top.pc].target
           v == IF t = "init_state_" THEN init_state_[self] ELSE t
       IN /\ current_state_' = [current_state_ EXCEPT ![self] = v]
          /\ log' = Append(log, [call |-> "assign", state |-> v,
                                 fsm |-> self, cur |-> v])
          /\ stack' = << Advanced >> \o Tail(stack)
    /\ UNCHANGED << machine, this_, init_state_, initial_current_, current_,
                    op, pre, args, hist >>

\* resetter()
call_resetter ==
    /\ AtInstr("resetter")
    /\ Len(stack) < MaxDepth
    /\ LET self == Top.self
       IN /\ log' = Append(log, Call("resetter", "-", self))
          /\ stack' = << Frame(self, NoEvent, ResetterCode(machine)),
                         Advanced >> \o Tail(stack)
    /\ UNCHANGED << machine, this_, init_state_, current_state_,
                    initial_current_, current_, op, pre, args, hist >>

\* current_state_->entry(this_)
call_entry ==
    /\ AtInstr("entry")
    /\ Len(stack) < MaxDepth
    /\ LET self == Top.self
           s == current_state_[self]
       IN /\ log' = Append(log, Call("entry", s, this_[self]))
          /\ hist' = [hist EXCEPT ![self] = [call |-> "entry", entered |-> s]]
          /\ stack' = << Frame(this_[self], NoEvent, EntryCode(machine, s)),
                         Advanced >> \o Tail(stack)
    /\ UNCHANGED << machine, this_, init_state_, current_state_,
                    initial_current_, current_, op, pre, args >>

(***************************************************************************)
(* The statements of the states' routines and of the resetter              *)
(***************************************************************************)
\* fsm->setCurrent(event.current), setCurrent(0.), setCurrent(initial_current_)
setCurrent ==
    /\ AtInstr("setCurrent")
    /\ LET self == Top.self
           src == Top.code[Top.pc].src
           v == IF src = "event" THEN Top.event.current
                ELSE IF src = "initial" THEN initial_current_[self]
                ELSE 0
       IN /\ current_' = [current_ EXCEPT ![self] = v]
          /\ stack' = << Advanced >> \o Tail(stack)
    /\ UNCHANGED << machine, this_, init_state_, current_state_,
                    initial_current_, log, op, pre, args, hist >>

\* State::transit<T_State>(fsm): fsm->transit<T_State>()
\* a State::transit helper that calls itself instead of fsm->transit
State_transit_self ==
    /\ AtInstr("transit")
    /\ Len(stack) < MaxDepth
    /\ LET fsm == Top.self
           T_State == Top.code[Top.pc].target
       IN /\ log' = Append(log, Call("transit", _state_instance(T_State), fsm))
          /\ stack' = << Frame(fsm, NoEvent, << Instr("transit", T_State, "-") >>),
                         Advanced >> \o Tail(stack)
    /\ UNCHANGED << machine, this_, init_state_, current_state_,
                    initial_current_, current_, op, pre, args, hist >>

State_transit ==
    /\ AtInstr("transit")
    /\ Len(stack) < MaxDepth
    /\ LET fsm == Top.self
           T_State == Top.code[Top.pc].target
       IN /\ log' = Append(log, Call("transit", _state_instance(T_State), fsm))
          /\ stack' = << Frame(fsm, NoEvent, transit(T_State)),
                         Advanced >> \o Tail(stack)
    /\ UNCHANGED << machine, this_, init_state_, current_state_,
                    initial_current_, current_, op, pre, args, hist >>

\* the routine on top of the stack returns to its caller
Return ==
    /\ stack # << >>
    /\ Top.pc > Len(Top.code)
    /\ stack' = Tail(stack)
    /\ UNCHANGED << machine, this_, init_state_, current_state_,
                    initial_current_, current_, log, op, pre, args, hist >>

(***************************************************************************)
(* Specification                                                           *)
(***************************************************************************)
Next ==
    \/ \E i \in Instances, S \in StateTypesOf(machine), c \in Currents(machine) :
          start(i, S, c)
    \/ \E i \in Instances, e \in Events(machine) : FSM_react(i, e)
    \/ \E i \in Instances : FSM_reset(i)
    \/ \E i \in Instances, T \in StateTypesOf(machine) : FSM_is_in_state(i, T)
    \/ call_exit
    \/ assign
    \/ call_resetter
    \/ call_entry
    \/ setCurrent
    \/ State_transit
    \/ Return

Spec == Init /\ [][Next]_vars

SpecAll == InitAll /\ [][Next]_vars

\* the switches, with instances that may be copies of one another
NextCopy ==
    \/ Next
    \/ \E i \in Instances, j \in Instances : copy(j, i)

SpecCopy == Init /\ [][NextCopy]_vars

\* the FSM types whose reactions transit at most once and whose entry and
\* exit routines never transit
WellBehaved == Machines \cup {"self_transit"}

InitWellBehaved == machine \in WellBehaved /\ NoInstance

\* a call that was made goes on executing: the program has one thread, and
\* no statement of the engine or of the routines waits for anything
Run ==
    \/ call_exit
    \/ assign
    \/ call_resetter
    \/ call_entry
    \/ setCurrent
    \/ State_transit
    \/ Return

SpecFair == InitWellBehaved /\ [][Next]_vars /\ WF_vars(Run)

(***************************************************************************)
(* Properties                                                              *)
(***************************************************************************)
\* the positions of the log at which State::transit was called
TransitIdx == {k \in 1..Len(log) : log[k].call = "transit"}

IsExitOrEntry(r) == r.call \in {"exit", "entry"}

\* the exit and entry calls of the last top-level call, in order
ExitEntryLog == SelectSeq(log, IsExitOrEntry)

\* the last top-level call has returned
Returned(kind) == Idle /\ op.kind = kind

\* the fields of instance j are what they were when the last call began
FieldsKept(j) ==
    /\ this_[j] = pre.this_[j]
    /\ init_state_[j] = pre.init_state_[j]
    /\ current_state_[j] = pre.current_state_[j]
    /\ initial_current_[j] = pre.initial_current_[j]
    /\ current_[j] = pre.current_[j]

\* C1: every transit<T> performed inside a reaction calls exit exactly once
\* on the outgoing state, then assigns, then calls entry exactly once on T,
\* on the reacting instance, and the react makes no other exit or entry call.
C1_TransitExitThenEntry ==
    Returned("react") =>
        /\ \A k \in TransitIdx :
              /\ k + 3 <= Len(log)
              /\ log[k + 1] = [call |-> "exit", state |-> log[k].cur,
                               fsm |-> op.inst, cur |-> log[k].cur]
              /\ log[k + 2] = [call |-> "assign", state |-> log[k].state,
                               fsm |-> op.inst, cur |-> log[k].state]
              /\ log[k + 3] = [call |-> "entry", state |-> log[k].state,
                               fsm |-> op.inst, cur |-> log[k].state]
        /\ Len(ExitEntryLog) = 2 * Cardinality(TransitIdx)
        /\ TransitIdx # {} =>
              /\ ExitEntryLog[1].state = pre.current_state_[op.inst]
              /\ is_in_state(op.inst, ExitEntryLog[2].state)

C1_Witness ==
    /\ Returned("react")
    /\ TransitIdx # {}
    /\ current_state_[op.inst] # pre.current_state_[op.inst]

\* C2: right after start<FSM, Init>(args...) the instance is in Init and in
\* no other state, the extended switch's current is the passed one, and no
\* entry or exit (nor any other state routine) has been called.
C2_StartInInitialState ==
    op.kind = "start" =>
        /\ Idle
        /\ is_in_state(op.inst, args[op.inst].state)
        /\ \A T \in StateTypes \ {args[op.inst].state} : ~is_in_state(op.inst, T)
        /\ machine = "extended_switch" =>
              getCurrent(op.inst) = args[op.inst].current
        /\ log = << >>

C2_Witness ==
    /\ op.kind = "start"
    /\ machine = "extended_switch"
    /\ args[op.inst].state = "OnState"
    /\ args[op.inst].current # 0
    /\ \E j \in Instances \ {op.inst} : args[j].state = "OffState"

\* C3: when reset() has returned the instance is in the initial state it was
\* started with, whatever calls preceded the reset.
C3_ResetToInitialState ==
    Returned("reset") => is_in_state(op.inst, args[op.inst].state)

C3_Witness ==
    /\ Returned("reset")
    /\ ~ pre.current_state_[op.inst] = _state_instance(args[op.inst].state)
    /\ is_in_state(op.inst, args[op.inst].state)
    /\ \E j \in Instances \ {op.inst} :
          /\ constructed(j)
          /\ args[j].state # args[op.inst].state
          /\ ~is_in_state(j, args[op.inst].state)

\* C4: when reset() of an extended switch has returned, its current equals
\* the current it was constructed with and it is in its initial state, as a
\* freshly constructed instance is.
C4_ResetRestoresCurrent ==
    (Returned("reset") /\ machine = "extended_switch") =>
        /\ getCurrent(op.inst) = args[op.inst].current
        /\ is_in_state(op.inst, args[op.inst].state)

\* C5: at every step of a call on one instance, every field of the other
\* instance is what it was when the call began.
C5_Isolation ==
    op.kind # "-" => \A j \in Instances \ {op.inst} : FieldsKept(j)

C5_Witness ==
    /\ Returned("react")
    /\ current_state_[op.inst] # pre.current_state_[op.inst]
    /\ \E j \in Instances \ {op.inst} :
          /\ constructed(j)
          /\ pre.current_state_[j] = pre.current_state_[op.inst]

\* C6: a constructed instance is in exactly one of the concrete state types,
\* at every step.
C6_ExactlyOneState ==
    \A i \in Instances :
        constructed(i) =>
            Cardinality({T \in StateTypes : is_in_state(i, T)}) = 1

C6_Witness ==
    /\ \A i \in Instances : constructed(i)
    /\ ~Idle
    /\ op.kind = "react"
    /\ current_state_[op.inst] # pre.current_state_[op.inst]

\* C7: react(event) calls exactly one react routine, that of the state which
\* was current when react was called, with the reacting instance; when that
\* state does not override the event's react, no field of any instance
\* changes and no exit or entry is called.
C7_OneReaction ==
    Returned("react") =>
        /\ Cardinality({k \in 1..Len(log) : log[k].call = "react"}) = 1
        /\ log[1] = [call |-> "react",
                     state |-> pre.current_state_[op.inst],
                     fsm |-> op.inst,
                     cur |-> pre.current_state_[op.inst]]
        /\ ~HasOverride(machine, pre.current_state_[op.inst], op.event.type) =>
              /\ \A j \in Instances : FieldsKept(j)
              /\ Len(log) = 1

C7_Witness ==
    /\ Returned("react")
    /\ op.event.type = "OffEvent"
    /\ pre.current_state_[op.inst] = _state_instance("OffState")
    /\ is_in_state(op.inst, "OffState")

\* the state the reference table of the simple switch gives for a call
SimpleSwitchTable(kind, e, init) ==
    IF kind = "reset" THEN init
    ELSE IF e = "OnEvent" THEN "OnState" ELSE "OffState"

\* C8: the simple switch follows its table: OnEvent leads to OnState,
\* OffEvent to OffState, reset to the initial state; an event that leads to
\* the state the switch is in calls no exit and no entry.
C8_SimpleSwitchTable ==
    (machine = "simple_switch" /\ (Returned("react") \/ Returned("reset"))) =>
        LET goal == SimpleSwitchTable(op.kind, op.event.type, args[op.inst].state)
        IN /\ is_in_state(op.inst, goal)
           /\ (op.kind = "react"
                 /\ pre.current_state_[op.inst] = _state_instance(goal)) =>
                 ExitEntryLog = << >>

C8_Witness ==
    /\ machine = "simple_switch"
    /\ Returned("react")
    /\ op.event.type = "OnEvent"
    /\ pre.current_state_[op.inst] = _state_instance("OnState")
    /\ args[op.inst].state = "OffState"

\* C9: the extended switch: OffEvent in OnState leads to OffState with
\* current 0; OnEvent(c) in OnState keeps OnState without a transition and
\* sets the current to c; OnEvent(c) in OffState leads to OnState with
\* current c; reset leads to the initial state with the initial current.
C9_ExtendedSwitchTable ==
    (machine = "extended_switch" /\ (Returned("react") \/ Returned("reset"))) =>
        LET i == op.inst
            was == pre.current_state_[i]
            e == op.event
        IN /\ (op.kind = "react" /\ e.type = "OffEvent" /\ was = "OnState") =>
                  is_in_state(i, "OffState") /\ getCurrent(i) = 0
           /\ (op.kind = "react" /\ e.type = "OnEvent" /\ was = "OnState") =>
                  /\ is_in_state(i, "OnState")
                  /\ TransitIdx = {}
                  /\ getCurrent(i) = e.current
           /\ (op.kind = "react" /\ e.type = "OnEvent" /\ was = "OffState") =>
                  is_in_state(i, "OnState") /\ getCurrent(i) = e.current
           /\ op.kind = "reset" =>
                  /\ is_in_state(i, args[i].state)
                  /\ getCurrent(i) = args[i].current

\* C10: reset() calls exit on the state that was current when it was called,
\* then sets current_state_ to the initial state, then runs the resetter,
\* then calls entry on the initial state; each exactly once, and nothing else.
C10_ResetOrder ==
    Returned("reset") =>
        LET i == op.inst
            was == pre.current_state_[i]
            init == _state_instance(args[i].state)
        IN log = << [call |-> "exit", state |-> was, fsm |-> i, cur |-> was],
                    [call |-> "assign", state |-> init, fsm |-> i, cur |-> init],
                    [call |-> "resetter", state |-> "-", fsm |-> i, cur |-> init],
                    [call |-> "entry", state |-> init, fsm |-> i, cur |-> init] >>

C10_Witness ==
    /\ Returned("reset")
    /\ pre.current_state_[op.inst] = _state_instance(args[op.inst].state)
    /\ Len(log) = 4

\* the routine on top of the stack was called by statement o of its caller
Running(o) ==
    /\ Len(stack) >= 2
    /\ stack[2].pc > 1
    /\ stack[2].code[stack[2].pc - 1].op = o

\* the frame is an activation of FSM::transit, and its target
TransitAssigns(f) ==
    {k \in 1..Len(f.code) :
        f.code[k].op = "assign" /\ f.code[k].target # "init_state_"}

IsTransitFrame(f) == TransitAssigns(f) # {}

TransitTarget(f) == f.code[CHOOSE k \in TransitAssigns(f) : TRUE].target

\* the most recent call of State::transit in the log
LastTransit ==
    log[CHOOSE k \in TransitIdx : \A n \in TransitIdx : n <= k]

\* C11: in every transit<T>, while exit runs the instance is still in the
\* outgoing state, and while entry runs it is already in T: current_state_ is
\* reassigned after the exit call and before the entry call.
C11_AssignBetweenExitAndEntry ==
    (Len(stack) >= 2 /\ IsTransitFrame(stack[2])) =>
        LET f == stack[2]
            T == TransitTarget(f)
            old == LastTransit.cur
            n == Len(log)
        IN /\ Running("exit") =>
                 /\ is_in_state(f.self, old)
                 /\ log[n].call = "exit" /\ log[n].state = old
                 /\ \A k \in 1..n : log[k].call # "assign"
           /\ Running("entry") =>
                 /\ is_in_state(f.self, T)
                 /\ n >= 3
                 /\ log[n - 2].call = "exit" /\ log[n - 2].state = old
                 /\ log[n - 1].call = "assign" /\ log[n - 1].state = T
                 /\ log[n].call = "entry" /\ log[n].state = T

C11_Witness ==
    /\ Len(stack) >= 2
    /\ IsTransitFrame(stack[2])
    /\ Running("entry")
    /\ is_in_state(stack[2].self, TransitTarget(stack[2]))
    /\ LastTransit.cur # TransitTarget(stack[2])

\* a call record of the log
Logged(name, s, fsm, cur) == [call |-> name, state |-> s, fsm |-> fsm, cur |-> cur]

\* C12: a transit<T> called while the instance is in T calls exit on T, then
\* assigns T, then calls entry on T, and the instance is in T afterwards.
C12_SelfTransition ==
    (/\ machine = "self_transit"
     /\ Returned("react")
     /\ op.event.type = "OnEvent"
     /\ pre.current_state_[op.inst] = _state_instance("StateA")) =>
        LET i == op.inst
            A == _state_instance("StateA")
        IN /\ log = << Logged("react", A, i, A),
                       Logged("transit", A, i, A),
                       Logged("exit", A, i, A),
                       Logged("assign", A, i, A),
                       Logged("entry", A, i, A) >>
           /\ is_in_state(i, "StateA")

C12_Witness ==
    /\ machine = "self_transit"
    /\ Returned("react")
    /\ op.event.type = "OnEvent"
    /\ pre.current_state_[op.inst] = _state_instance("StateA")
    /\ is_in_state(op.inst, "StateA")
    /\ Len(ExitEntryLog) = 2

\* C13: init_state_ of a constructed instance never changes; current_state_
\* changes only in the assignment of a transit or a reset (and when the
\* instance is constructed), so not in a reaction's other statements; and
\* is_in_state changes no field and answers whether the instance is in the
\* state asked for.
C13_StateChangesOnlyInTransitOrReset ==
    [][ /\ \A i \in Instances :
              constructed(i) => init_state_'[i] = init_state_[i]
        /\ \A i \in Instances :
              current_state_'[i] # current_state_[i] =>
                  \/ /\ AtInstr("assign")
                     /\ Top.self = i
                     /\ IsTransitFrame(Top) \/ Top.code = reset
                  \/ /\ ~constructed(i)
                     /\ op'.kind = "start"
                     /\ op'.inst = i
        /\ (Idle /\ op'.kind = "is_in_state") =>
              /\ Idle'
              /\ \A j \in Instances :
                    /\ this_'[j] = this_[j]
                    /\ init_state_'[j] = init_state_[j]
                    /\ current_state_'[j] = current_state_[j]
                    /\ initial_current_'[j] = initial_current_[j]
                    /\ current_'[j] = current_[j]
              /\ op'.result = (current_state_[op'.inst] = _state_instance(op'.state))
      ]_vars

C13_Witness ==
    /\ op.kind = "is_in_state"
    /\ op.result
    /\ current_state_[op.inst] # init_state_[op.inst]
    /\ machine = "extended_switch"
    /\ current_[op.inst] # initial_current_[op.inst]

\* C14: for the FSM types whose reactions transit at most once and whose
\* entry and exit routines never transit, every react and every reset
\* returns, after at most five logged calls and with at most three routines
\* active at a time.
C14_RunsToCompletion ==
    /\ [](~Idle => (Len(stack) <= 3 /\ Len(log) <= 5))
    /\ (~Idle ~> Idle)

C14_Witness ==
    /\ Returned("reset")
    /\ machine = "self_transit"
    /\ Len(log) = 4
    /\ pre.current_state_[op.inst] # current_state_[op.inst]

\* C15: a reaction that calls transit<A> and then transit<B> leaves the
\* instance in B, and exit and entry are called for the intermediate target
\* too: exit(old), entry(A), exit(A), entry(B).
C15_TwoTransitsInOneReaction ==
    (/\ machine = "double_transit"
     /\ Returned("react")
     /\ op.event.type = "OnEvent"
     /\ pre.current_state_[op.inst] = _state_instance("StateC")) =>
        LET i == op.inst
            A == _state_instance("StateA")
            B == _state_instance("StateB")
            C == _state_instance("StateC")
        IN /\ is_in_state(i, "StateB")
           /\ log = << Logged("react", C, i, C),
                       Logged("transit", A, i, C),
                       Logged("exit", C, i, C),
                       Logged("assign", A, i, A),
                       Logged("entry", A, i, A),
                       Logged("transit", B, i, A),
                       Logged("exit", A, i, A),
                       Logged("assign", B, i, B),
                       Logged("entry", B, i, B) >>

C15_Witness ==
    /\ machine = "double_transit"
    /\ Returned("react")
    /\ Cardinality(TransitIdx) = 2
    /\ is_in_state(op.inst, "StateB")
    /\ Len(ExitEntryLog) = 4

\* C16: the FSM pointer of every constructed instance, a copy included, is
\* the instance itself: every react, exit and entry call of a call on an
\* instance gets that instance, and the call changes no field of another.
C16_ThisIsSelf ==
    /\ \A i \in Instances : constructed(i) => this_[i] = i
    /\ op.kind \in {"react", "reset"} =>
          /\ \A k \in 1..Len(log) :
                log[k].call \in {"react", "exit", "entry"} => log[k].fsm = op.inst
          /\ \A j \in Instances \ {op.inst} : FieldsKept(j)

\* C17: between calls, an extended switch that is in OffState has current 0.
C17_OffStateCurrentZero ==
    (machine = "extended_switch" /\ Idle) =>
        \A i \in Instances :
            (constructed(i) /\ is_in_state(i, "OffState")) => getCurrent(i) = 0

\* the state the last entry call of instance i was made on, or its initial
\* state when no entry was called on it yet
LastEntered(i) ==
    IF hist[i].entered = Null THEN init_state_[i] ELSE hist[i].entered

\* C18: every exit call of an instance is made on its current state, which
\* is the state of its most recent entry call (its initial state before any
\* entry), and the call before it was not an exit; every entry call follows
\* an exit call made by the same transit or reset.
C18_ExitsAndEntriesAlternate ==
    [][ /\ AtInstr("exit") =>
              LET self == Top.self
                  r == log'[Len(log')]
              IN /\ r.call = "exit"
                 /\ r.state = current_state_[self]
                 /\ r.state = LastEntered(self)
                 /\ hist[self].call # "exit"
        /\ AtInstr("entry") =>
              LET self == Top.self
                  r == log'[Len(log')]
              IN /\ r.call = "entry"
                 /\ r.state = current_state_[self]
                 /\ hist[self].call = "exit"
                 /\ \E k \in 1..(Top.pc - 1) : Top.code[k].op = "exit"
                 /\ \E k \in 1..Len(log) :
                       /\ log[k].call = "exit"
                       /\ \A n \in (k + 1)..Len(log) :
                             log[n].call \notin {"exit", "entry", "transit"}
      ]_vars

C18_Witness ==
    /\ ~Idle
    /\ op.kind = "react"
    /\ hist[op.inst].call = "exit"
    /\ hist[op.inst].entered # Null
    /\ hist[op.inst].entered # init_state_[op.inst]
    /\ log[Len(log)].state = hist[op.inst].entered

\* the positions of the log at which exit was called on StateA
ExitAIdx ==
    {k \in 1..Len(log) :
        log[k].call = "exit" /\ log[k].state = _state_instance("StateA")}

\* C19: when the exit routine of StateA calls transit, the nested transit
\* calls exit on StateA again, since current_state_ is not reassigned before
\* exit returns: after the first exit call on StateA every further call is a
\* transit or an exit on StateA made while the instance is still in StateA,
\* none of the routines returns, and the react or reset is never over.
C19_ExitThatTransitsNeverReturns ==
    (machine = "exit_transit" /\ ExitAIdx # {}) =>
        LET first == CHOOSE k \in ExitAIdx : \A n \in ExitAIdx : k <= n
        IN /\ ~Idle
           /\ \A k \in first..Len(log) :
                 /\ log[k].call \in {"exit", "transit"}
                 /\ log[k].cur = _state_instance("StateA")
                 /\ log[k].call = "exit" => log[k].state = _state_instance("StateA")
           /\ is_in_state(op.inst, "StateA")
           /\ Len(stack) >= 2 * Cardinality(ExitAIdx)

C19_Witness ==
    /\ machine = "exit_transit"
    /\ Cardinality(ExitAIdx) >= 3
    /\ op.kind = "reset"

\* C20: when the entry routine of StateA calls transit<StateB>, the
\* transit<StateA> of a reaction returns with the instance in StateB; the
\* calls are exit(old), entry(StateA), exit(StateA), entry(StateB), the
\* entry routine of StateA being still active while transit<StateB> runs;
\* and at every step the instance is in exactly one state.
C20_EntryThatTransits ==
    machine = "entry_transit" =>
        LET A == _state_instance("StateA")
            B == _state_instance("StateB")
        IN /\ \A i \in Instances :
                 constructed(i) =>
                     Cardinality({T \in StateTypesOf(machine) : is_in_state(i, T)}) = 1
           /\ \A n \in 1..Len(stack) :
                 (IsTransitFrame(stack[n]) /\ TransitTarget(stack[n]) = B) =>
                     /\ n + 2 <= Len(stack)
                     /\ stack[n + 1].code = EntryCode(machine, A)
                     /\ stack[n + 1].pc = 2
                     /\ stack[n + 2].pc > 1
                     /\ stack[n + 2].code[stack[n + 2].pc - 1].op = "entry"
           /\ (Returned("react") /\ op.event.type = "OnEvent") =>
                 LET i == op.inst
                     old == pre.current_state_[i]
                 IN /\ is_in_state(i, "StateB")
                    /\ log = << Logged("react", old, i, old),
                                Logged("transit", A, i, old),
                                Logged("exit", old, i, old),
                                Logged("assign", A, i, A),
                                Logged("entry", A, i, A),
                                Logged("transit", B, i, A),
                                Logged("exit", A, i, A),
                                Logged("assign", B, i, B),
                                Logged("entry", B, i, B) >>

C20_Witness ==
    /\ machine = "entry_transit"
    /\ Returned("react")
    /\ op.event.type = "OnEvent"
    /\ pre.current_state_[op.inst] = _state_instance("StateC")
    /\ is_in_state(op.inst, "StateB")
    /\ Len(log) = 9

====
